---------------------------- MODULE Spec2Model ----------------------------
(***************************************************************************)
(* Coastline bounding and closure engine of pdf-map                        *)
(* (src/src/features/coastline_handler.py, src/src/map_dimensions.py).     *)
(*                                                                         *)
(* Coordinates are integer pairs <<lon, lat>>.  The OSM extracts of the    *)
(* model place their nodes so that every boundary crossing the clipper     *)
(* computes is an integer point (CrossingIsExact), which is also where the *)
(* float arithmetic of the source is exact.                                *)
(***************************************************************************)
EXTENDS Integers, Sequences, FiniteSets, TLC

(***************************************************************************)
(* Bounds of the model.                                                    *)
(***************************************************************************)
MaxWays == 3        \* coastline ways read from one extract
MaxRuns == 2        \* renderings in one process
MaxDeferred == 2    \* events the walker may add to one side list
MaxDepth == 4       \* nested join_open_coastlines calls

(***************************************************************************)
(* Generic helpers.                                                        *)
(***************************************************************************)
Range(s) == {s[i] : i \in DOMAIN s}

Last(s) == s[Len(s)]

\* list[1:]
Rest(s) == IF Len(s) = 0 THEN <<>> ELSE Tail(s)

\* list.insert(0, x)
Insert0(s, x) == <<x>> \o s

Sq(x) == x * x

(***************************************************************************)
(* map_dimensions.py                                                       *)
(***************************************************************************)
Side == {"TOP", "RIGHT", "BOTTOM", "LEFT"}

\* iteration order of `for side in Side`
SideOrder == <<"TOP", "RIGHT", "BOTTOM", "LEFT">>

\* MapDimensions(bottom_left_coord, top_right_coord): the rectangle R
map_dimensions == [min_lon |-> 0, min_lat |-> 0, max_lon |-> 8, max_lat |-> 8]

\* the corners taken counterclockwise, against which the corners of the
\* published polygons are tested
side_clockwise_corners_reversed ==
    [s \in Side |->
        CASE s = "TOP"    -> <<map_dimensions.min_lon, map_dimensions.max_lat>>
          [] s = "RIGHT"  -> <<map_dimensions.max_lon, map_dimensions.max_lat>>
          [] s = "BOTTOM" -> <<map_dimensions.max_lon, map_dimensions.min_lat>>
          [] s = "LEFT"   -> <<map_dimensions.min_lon, map_dimensions.min_lat>>]

side_clockwise_corners ==
    [s \in Side |->
        CASE s = "TOP"    -> <<map_dimensions.max_lon, map_dimensions.max_lat>>
          [] s = "RIGHT"  -> <<map_dimensions.max_lon, map_dimensions.min_lat>>
          [] s = "BOTTOM" -> <<map_dimensions.min_lon, map_dimensions.min_lat>>
          [] s = "LEFT"   -> <<map_dimensions.min_lon, map_dimensions.max_lat>>]

(***************************************************************************)
(* coastline_handler.py: module level                                      *)
(***************************************************************************)
NEXT_SIDE_MAP ==
    [s \in Side |->
        CASE s = "TOP"    -> "RIGHT"
          [] s = "RIGHT"  -> "BOTTOM"
          [] s = "BOTTOM" -> "LEFT"
          [] s = "LEFT"   -> "TOP"]

\* The module-level dict maps each side to one list object.  A list object
\* is named by a reference; the four lists of the module are named by
\* their side.  An IntersectionMap is a dict from side to list reference.
EMPTY_INTERSECTION_MAP == [s \in Side |-> s]

\* dict.copy(): a new dict holding the same values, i.e. the same list
\* references (a shallow copy).
DictCopy(m) == [s \in Side |-> m[s]]

NoId == 0
NoPoint == <<0, 0>>

is_inside_map(point) ==
    /\ map_dimensions.min_lon <= point[1]
    /\ point[1] <= map_dimensions.max_lon
    /\ map_dimensions.min_lat <= point[2]
    /\ point[2] <= map_dimensions.max_lat

(***************************************************************************)
(* find_segment_intersection_with_boundary                                 *)
(*                                                                         *)
(* t = n/d for a side line; the candidate point is kept as the exact       *)
(* fraction (xn/den, yn/den) with den > 0.                                 *)
(***************************************************************************)
Sign(x) == IF x < 0 THEN 0 - 1 ELSE 1

\* 0 <= n/d <= 1 for d # 0
TInUnit(n, d) == LET nn == n * Sign(d)  dd == d * Sign(d)
                 IN  0 <= nn /\ nn <= dd

\* candidate on a horizontal side line lat = L (TOP, BOTTOM)
HorizontalCandidate(p1, p2, L, side, entering) ==
    IF p1[2] = p2[2] THEN <<>>
    ELSE LET d  == (p2[2] - p1[2]) * Sign(p2[2] - p1[2])
             n  == (L - p1[2]) * Sign(p2[2] - p1[2])
             xn == p1[1] * d + n * (p2[1] - p1[1])
         IN  IF /\ TInUnit(L - p1[2], p2[2] - p1[2])
                /\ map_dimensions.min_lon * d <= xn
                /\ xn <= map_dimensions.max_lon * d
             THEN <<[side |-> side, is_entering |-> entering,
                     xn |-> xn, yn |-> L * d, den |-> d]>>
             ELSE <<>>

\* candidate on a vertical side line lon = L (RIGHT, LEFT)
VerticalCandidate(p1, p2, L, side, entering) ==
    IF p1[1] = p2[1] THEN <<>>
    ELSE LET d  == (p2[1] - p1[1]) * Sign(p2[1] - p1[1])
             n  == (L - p1[1]) * Sign(p2[1] - p1[1])
             yn == p1[2] * d + n * (p2[2] - p1[2])
         IN  IF /\ TInUnit(L - p1[1], p2[1] - p1[1])
                /\ map_dimensions.min_lat * d <= yn
                /\ yn <= map_dimensions.max_lat * d
             THEN <<[side |-> side, is_entering |-> entering,
                     xn |-> L * d, yn |-> yn, den |-> d]>>
             ELSE <<>>

\* `intersections`, in the order the source appends them
Intersections(p1, p2) ==
       HorizontalCandidate(p1, p2, map_dimensions.max_lat, "TOP", p1[2] > p2[2])
    \o VerticalCandidate(p1, p2, map_dimensions.max_lon, "RIGHT", p1[1] > p2[1])
    \o HorizontalCandidate(p1, p2, map_dimensions.min_lat, "BOTTOM", p1[2] < p2[2])
    \o VerticalCandidate(p1, p2, map_dimensions.min_lon, "LEFT", p1[1] < p2[1])

\* dx*dx + dy*dy of a candidate from p1, times den*den
DistNum(c, p1) == Sq(c.xn - p1[1] * c.den) + Sq(c.yn - p1[2] * c.den)

\* c is strictly closer to p1 than e
Closer(c, e, p1) == DistNum(c, p1) * Sq(e.den) < DistNum(e, p1) * Sq(c.den)

\* distances.index(min(distances)): the first candidate no other is closer than
ClosestIndex(cs, p1) ==
    CHOOSE i \in DOMAIN cs :
        /\ \A j \in DOMAIN cs : ~Closer(cs[j], cs[i], p1)
        /\ \A j \in 1..(i - 1) : Closer(cs[i], cs[j], p1)

find_segment_intersection_with_boundary(p1, p2) ==
    LET blank == [kind |-> "inside", point |-> NoPoint, is_entering |-> FALSE,
                  side |-> "TOP"]
        cs == Intersections(p1, p2)
    IN  IF is_inside_map(p1) /\ is_inside_map(p2) THEN blank
        ELSE IF ~is_inside_map(p1) /\ ~is_inside_map(p2)
        THEN [blank EXCEPT !.kind = "outside"]
        ELSE IF Len(cs) = 0 THEN [blank EXCEPT !.kind = "raise"]
        ELSE LET c == cs[ClosestIndex(cs, p1)]
             IN  [kind |-> "crossing",
                  point |-> <<c.xn \div c.den, c.yn \div c.den>>,
                  is_entering |-> c.is_entering,
                  side |-> c.side]

\* the crossing point of the segment has integer coordinates
CrossingIsExact(p1, p2) ==
    LET cs == Intersections(p1, p2)
    IN  (is_inside_map(p1) # is_inside_map(p2) /\ Len(cs) > 0) =>
            LET c == cs[ClosestIndex(cs, p1)]
            IN  c.xn % c.den = 0 /\ c.yn % c.den = 0

(***************************************************************************)
(* The OSM extracts the model reads.  A node has an id and a coordinate;   *)
(* a coastline way is a sequence of node ids.                              *)
(*   "slots": six nodes above TOP (ids 1..6), one node inside R reached by *)
(*            the ways that come in (7) and one left by the ways that go   *)
(*            out (8); segments between them cross TOP at lon 1..6.        *)
(*   "grid" : nodes inside R, outside R, on a side and on a corner.        *)
(*   "torn" : two ways that meet at node 21, which the extract references  *)
(*            but does not hold.                                           *)
(*   "round": a way that runs counterclockwise around R and dips into it   *)
(*            through each side (nodes 31..45), two ways that come in      *)
(*            through TOP and go out through RIGHT and through BOTTOM, and *)
(*            a way that comes in through RIGHT and goes out through TOP   *)
(*            (nodes 51..57).                                              *)
(***************************************************************************)
NodeCoord ==
    [n \in (1..8) \cup (11..18) \cup (31..45) \cup (51..57) |->
        CASE n \in 1..6 -> <<2 * n - 4, 12>>
          [] n = 7  -> <<4, 4>>
          [] n = 8  -> <<4, 4>>
          [] n = 11 -> <<2, 4>>      \* inside
          [] n = 12 -> <<6, 4>>      \* inside
          [] n = 13 -> <<2, 12>>     \* above TOP
          [] n = 14 -> <<6, 12>>     \* above TOP
          [] n = 15 -> <<12, 4>>     \* right of RIGHT
          [] n = 16 -> <<0, 4>>      \* on LEFT
          [] n = 17 -> <<8, 8>>      \* the TOP/RIGHT corner
          [] n = 18 -> <<10, 6>>     \* right of RIGHT, above node 15
          [] n = 31 -> <<6, 12>>
          [] n = 32 -> <<6, 6>>
          [] n = 33 -> <<2, 6>>
          [] n = 34 -> <<2, 12>>
          [] n = 35 -> <<0 - 4, 12>>
          [] n = 36 -> <<0 - 4, 6>>
          [] n = 37 -> <<2, 2>>
          [] n = 38 -> <<0 - 4, 2>>
          [] n = 39 -> <<0 - 4, 0 - 4>>
          [] n = 40 -> <<2, 0 - 4>>
          [] n = 41 -> <<6, 2>>
          [] n = 42 -> <<6, 0 - 4>>
          [] n = 43 -> <<12, 0 - 4>>
          [] n = 44 -> <<12, 2>>
          [] n = 45 -> <<12, 6>>
          [] n = 51 -> <<1, 12>>
          [] n = 52 -> <<1, 1>>
          [] n = 53 -> <<12, 1>>
          [] n = 54 -> <<1, 0 - 4>>
          [] n = 55 -> <<12, 5>>
          [] n = 56 -> <<5, 5>>
          [] n = 57 -> <<5, 12>>]

\* ways of "slots": in at slot i and out at slot j (i # j), in only, out only
SlotThroughWays ==
    [k \in 1..30 |->
        LET i == ((k - 1) \div 5) + 1
            r == ((k - 1) % 5) + 1
            j == IF r >= i THEN r + 1 ELSE r
        IN  <<i, 7, j>>]

SlotStubWays == [k \in 1..12 |-> IF k <= 6 THEN <<k, 7>> ELSE <<8, k - 6>>]

\* directed node pairs a way of "grid" may follow
GridEdges ==
    << <<11, 13>>, <<13, 14>>, <<14, 12>>, <<12, 11>>, <<12, 15>>, <<11, 12>>,
       <<12, 17>>, <<17, 11>>, <<16, 15>>, <<15, 17>>, <<16, 13>>, <<13, 16>>,
       <<12, 18>> >>

GridPairIndex == [k \in 1..(Len(GridEdges) * Len(GridEdges)) |->
                    << ((k - 1) \div Len(GridEdges)) + 1,
                       ((k - 1) % Len(GridEdges)) + 1 >>]

GridJoins(pr) == GridEdges[pr[1]][2] = GridEdges[pr[2]][1]

GridPathOf(pr) == <<GridEdges[pr[1]][1], GridEdges[pr[1]][2], GridEdges[pr[2]][2]>>

\* ways of "grid": every walk of two or three nodes along GridEdges
GridWays ==
    LET joined == SelectSeq(GridPairIndex, GridJoins)
    IN  GridEdges \o [k \in 1..Len(joined) |-> GridPathOf(joined[k])]

\* ways of "torn"
TornWays == << <<11, 12, 21>>, <<21, 14, 13>> >>

\* ways of "round"
RoundWays ==
    << <<31, 32, 33, 34, 35, 36, 33, 37, 38, 39, 40, 37, 41, 42, 43, 44, 41,
         32, 45>>,
       <<51, 52, 53>>, <<51, 52, 54>>, <<55, 56, 57>> >>

OsmFiles == {"slots", "grid", "torn", "round"}

\* the coastline ways of an extract, in file order
OsmWays(f) ==
    CASE f = "slots" -> SlotThroughWays \o SlotStubWays
      [] f = "grid"  -> GridWays
      [] f = "torn"  -> TornWays
      [] f = "round" -> RoundWays

\* node.ref in self.nodes
IsKnownNode(n) == n \in DOMAIN NodeCoord

\* osm_handler.way: the coordinates of a way are those of its nodes that
\* the extract holds
WayCoords(refs) ==
    LET known == SelectSeq(refs, IsKnownNode)
    IN  [i \in DOMAIN known |-> NodeCoord[known[i]]]

(***************************************************************************)
(* convert_coastline_ways_into_continuous_lines                            *)
(***************************************************************************)
\* sections[...] in dict order; ids are unique in an extract
Sections(cs) ==
    [i \in DOMAIN cs |->
        [id |-> cs[i].id, coords |-> cs[i].coords,
         start |-> cs[i].refs[1], end |-> Last(cs[i].refs)]]

\* the first section of greatest length (strict > keeps the first)
LongestSection(secs) ==
    CHOOSE i \in DOMAIN secs :
        /\ \A j \in DOMAIN secs : Len(secs[j].coords) <= Len(secs[i].coords)
        /\ \A j \in 1..(i - 1) : Len(secs[j].coords) < Len(secs[i].coords)

\* a search that also takes sections meeting the chain head-to-head or
\* tail-to-tail, against which the joins of the chains are tested
ExtendingSection_any_end(secs, used, chain_start, chain_end) ==
    LET fits(i) == /\ i \notin used
                   /\ {secs[i].start, secs[i].end}
                          \cap {chain_start, chain_end} # {}
    IN  IF \E i \in DOMAIN secs : fits(i)
        THEN CHOOSE i \in DOMAIN secs : fits(i) /\ \A j \in 1..(i - 1) : ~fits(j)
        ELSE 0

\* the for loop of one pass of `while True`: the first unused section that
\* continues the chain at its end or at its start; 0 when none does
ExtendingSection(secs, used, chain_start, chain_end) ==
    LET fits(i) == /\ i \notin used
                   /\ \/ secs[i].start = chain_end
                      \/ secs[i].end = chain_start
    IN  IF \E i \in DOMAIN secs : fits(i)
        THEN CHOOSE i \in DOMAIN secs : fits(i) /\ \A j \in 1..(i - 1) : ~fits(j)
        ELSE 0

\* a search that finds no section to start a further chain, against which
\* the cover of the ways by the chains is tested
FirstUnused_none(secs, used) == 0

FirstUnused(secs, used) ==
    IF \E i \in DOMAIN secs : i \notin used
    THEN CHOOSE i \in DOMAIN secs : i \notin used /\ \A j \in 1..(i - 1) : j \in used
    ELSE 0

RECURSIVE ExtendChains(_, _, _, _, _, _)
ExtendChains(secs, used, current_chain, chain_start, chain_end, chains) ==
    LET e == ExtendingSection(secs, used, chain_start, chain_end)
    IN  IF e # 0
        THEN IF secs[e].start = chain_end
             THEN ExtendChains(secs, used \cup {e},
                               current_chain \o Rest(secs[e].coords),
                               chain_start, secs[e].end, chains)
             ELSE ExtendChains(secs, used \cup {e},
                               secs[e].coords \o Rest(current_chain),
                               secs[e].start, chain_end, chains)
        ELSE LET emitted == IF Len(current_chain) >= 2
                            THEN Append(chains, current_chain) ELSE chains
                 n == FirstUnused(secs, used)
             IN  IF n = 0 THEN emitted
                 ELSE ExtendChains(secs, used \cup {n}, secs[n].coords,
                                   secs[n].start, secs[n].end, emitted)

convert_coastline_ways_into_continuous_lines(cs) ==
    IF Len(cs) = 0 THEN <<>>
    ELSE LET secs == Sections(cs)
             l == LongestSection(secs)
         IN  ExtendChains(secs, {l}, secs[l].coords, secs[l].start,
                          secs[l].end, <<>>)

(***************************************************************************)
(* State.                                                                  *)
(***************************************************************************)
VARIABLES
    osm_file,           \* the extract being read
    cursor,             \* position of the reader in the extract
    coastlines,         \* CoastlineHandler.coastlines
    lists,              \* the list objects of EMPTY_INTERSECTION_MAP, by reference
    next_uuid,          \* generate_bounded_coastline_id: ids handed out so far
    run,                \* renderings started in this process
    pc,                 \* position of the program
    error,              \* the exception that ended the rendering, "" if none
    clip,               \* locals of bound_and_sort_complete_coastlines
    closed_coastlines,  \* closed interior chains of the current rendering
    open_coastlines,    \* dict id -> list object of the current rendering
    stack,              \* frames of join_open_coastlines, innermost last
    all_coastlines,     \* closed_coastlines + joined_open_coastlines
    first_result        \* all_coastlines of the first rendering

vars == <<osm_file, cursor, coastlines, lists, next_uuid, run, pc, error, clip,
          closed_coastlines, open_coastlines, stack, all_coastlines, first_result>>

\* a dict with no key
EmptyDict == [i \in {} |-> <<>>]

NoIntersection == [kind |-> "none", point |-> NoPoint, is_entering |-> FALSE,
                   side |-> "TOP"]

\* the clipper before its first chain; returned_open and returned_events
\* keep what line 519 returns (open_coastlines and the events of the map,
\* side after side) as they are at the return
IdleClip ==
    [complete_coastlines |-> <<>>, chain_i |-> 0, seg_i |-> 0,
     does_coastline_cross_boundary |-> FALSE,
     bounded_coastlines_from_complete_coastline |-> <<>>,
     bounded_coastline_accumulator |-> <<>>,
     current_bounded_coastline_id |-> NoId,
     intersection_map |-> EMPTY_INTERSECTION_MAP,
     p1 |-> NoPoint, p2 |-> NoPoint, intersection |-> NoIntersection,
     returned_open |-> EmptyDict, returned_events |-> <<>>]

Init ==
    /\ osm_file \in OsmFiles
    /\ cursor = 0
    /\ coastlines = <<>>
    /\ lists = [s \in Side |-> <<>>]
    /\ next_uuid = 0
    /\ run = 0
    /\ pc = "read"
    /\ error = ""
    /\ clip = IdleClip
    /\ closed_coastlines = <<>>
    /\ open_coastlines = EmptyDict
    /\ stack = <<>>
    /\ all_coastlines = <<>>
    /\ first_result = <<>>

(***************************************************************************)
(* OSMHandler.way -> process_way_coastline -> add_coastline                *)
(***************************************************************************)
add_coastline(k) ==
    /\ pc = "read"
    /\ Len(coastlines) < MaxWays
    /\ k > cursor
    /\ Len(WayCoords(OsmWays(osm_file)[k])) > 0
    /\ coastlines' = Append(coastlines,
                            [id |-> k,
                             coords |-> WayCoords(OsmWays(osm_file)[k]),
                             refs |-> OsmWays(osm_file)[k]])
    /\ cursor' = k
    /\ UNCHANGED <<osm_file, lists, next_uuid, run, pc, error, clip,
                   closed_coastlines, open_coastlines, stack, all_coastlines,
                   first_result>>

(***************************************************************************)
(* render_coastline_and_background_water, up to the first chain of         *)
(* bound_and_sort_complete_coastlines (lines 110-126, 386-406)             *)
(***************************************************************************)
\* the locals of the clipper at the start of chain number i
StartChain(c, i, id) ==
    [c EXCEPT !.chain_i = i, !.seg_i = 1,
              !.does_coastline_cross_boundary = FALSE,
              !.bounded_coastlines_from_complete_coastline = <<>>,
              !.bounded_coastline_accumulator = <<>>,
              !.current_bounded_coastline_id = id]

Render ==
    /\ pc \in {"read", "done"}
    /\ run < MaxRuns
    /\ Len(coastlines) > 0
    /\ run' = run + 1
    /\ first_result' = IF run = 1 THEN all_coastlines ELSE first_result
    /\ closed_coastlines' = <<>>
    /\ open_coastlines' = EmptyDict
    /\ all_coastlines' = <<>>
    /\ stack' = <<>>
    /\ LET chains == convert_coastline_ways_into_continuous_lines(coastlines)
           c0 == [IdleClip EXCEPT
                     !.complete_coastlines = chains,
                     !.intersection_map = DictCopy(EMPTY_INTERSECTION_MAP)]
       IN  IF Len(chains) = 0
           THEN /\ clip' = [c0 EXCEPT !.chain_i = 1]
                /\ next_uuid' = next_uuid
           ELSE /\ clip' = StartChain(c0, 1, next_uuid + 1)
                /\ next_uuid' = next_uuid + 1
    /\ pc' = "clip"
    /\ UNCHANGED <<osm_file, cursor, coastlines, lists, error>>

\* len(self.coastlines) == 0: the whole page is land, nothing is clipped;
\* as Render, the call can be made again on the same handler
RenderNoCoastlines ==
    /\ pc \in {"read", "done"}
    /\ run < MaxRuns
    /\ Len(coastlines) = 0
    /\ run' = run + 1
    /\ pc' = "done"
    /\ UNCHANGED <<osm_file, cursor, coastlines, lists, next_uuid, error, clip,
                   closed_coastlines, open_coastlines, stack, all_coastlines,
                   first_result>>

(***************************************************************************)
(* bound_and_sort_complete_coastlines: one pass of the loop over the       *)
(* segments of a chain (lines 408-456)                                     *)
(***************************************************************************)
CurrentChain == clip.complete_coastlines[clip.chain_i]

\* list.append on the list object a map holds for a side
AppendEvent(ls, m, side, e) == [ls EXCEPT ![m[side]] = Append(@, e)]

Raise(msg) ==
    /\ pc' = "error"
    /\ error' = msg

ClipSegment ==
    /\ pc = "clip"
    /\ clip.chain_i <= Len(clip.complete_coastlines)
    /\ clip.seg_i < Len(CurrentChain)
    /\ LET p1 == CurrentChain[clip.seg_i]
           p2 == CurrentChain[clip.seg_i + 1]
           intersection == find_segment_intersection_with_boundary(p1, p2)
           acc == clip.bounded_coastline_accumulator
           c1 == [clip EXCEPT !.p1 = p1, !.p2 = p2,
                              !.intersection = intersection,
                              !.seg_i = @ + 1]
       IN  CASE intersection.kind = "raise" ->
                  /\ Raise("No intersection found for line segment that crosses boundary")
                  /\ clip' = c1
                  /\ UNCHANGED <<lists, next_uuid>>
             [] intersection.kind = "inside" ->
                  /\ clip' = [c1 EXCEPT !.bounded_coastline_accumulator =
                                 (IF Len(acc) = 0 THEN <<p1>> ELSE acc) \o <<p2>>]
                  /\ UNCHANGED <<lists, next_uuid, pc, error>>
             [] intersection.kind = "outside" ->
                  IF Len(acc) # 0
                  THEN /\ Raise("Coastline accumulator is not empty but we're outside the map")
                       /\ clip' = c1
                       /\ UNCHANGED <<lists, next_uuid>>
                  ELSE /\ clip' = c1
                       /\ UNCHANGED <<lists, next_uuid, pc, error>>
             [] intersection.kind = "crossing" ->
                  /\ lists' = AppendEvent(lists, clip.intersection_map,
                                  intersection.side,
                                  [point |-> intersection.point,
                                   is_entering |-> intersection.is_entering,
                                   side |-> intersection.side,
                                   bounded_coastline_id |->
                                       clip.current_bounded_coastline_id])
                  /\ IF intersection.is_entering
                     THEN /\ clip' = [c1 EXCEPT
                                 !.does_coastline_cross_boundary = TRUE,
                                 !.bounded_coastline_accumulator =
                                     <<intersection.point, p2>>]
                          /\ next_uuid' = next_uuid
                     ELSE /\ clip' = [c1 EXCEPT
                                 !.does_coastline_cross_boundary = TRUE,
                                 !.bounded_coastlines_from_complete_coastline =
                                     Append(@, [id |-> clip.current_bounded_coastline_id,
                                                coords |-> (IF Len(acc) = 0 THEN <<p1>> ELSE acc)
                                                           \o <<intersection.point>>]),
                                 !.current_bounded_coastline_id = next_uuid + 1,
                                 !.bounded_coastline_accumulator = <<>>]
                          /\ next_uuid' = next_uuid + 1
                  /\ UNCHANGED <<pc, error>>
    /\ UNCHANGED <<osm_file, cursor, coastlines, run, closed_coastlines,
                   open_coastlines, stack, all_coastlines, first_result>>

(***************************************************************************)
(* bound_and_sort_complete_coastlines: after the last segment of a chain   *)
(* (lines 458-509), then the head of the loop for the next chain           *)
(***************************************************************************)
\* lines 486-494: every event of the map that carries id `from` gets id `to`
RewriteIds(ls, m, from, to) ==
    [r \in DOMAIN ls |->
        IF \E side \in Side : m[side] = r
        THEN [i \in DOMAIN ls[r] |->
                 IF ls[r][i].bounded_coastline_id = from
                 THEN [ls[r][i] EXCEPT !.bounded_coastline_id = to]
                 ELSE ls[r][i]]
        ELSE ls[r]]

\* lines 505-509: later entries replace earlier ones with the same id
RECURSIVE StoreBounded(_, _)
StoreBounded(oc, bounded) ==
    IF Len(bounded) = 0 THEN oc
    ELSE StoreBounded([i \in DOMAIN oc \cup {bounded[1].id} |->
                           IF i = bounded[1].id THEN bounded[1].coords ELSE oc[i]],
                      Tail(bounded))

\* an end of chain that puts an interior chain in front of the closed
\* chains instead of behind them, against which their order is tested
ChainEnd_in_front(c, closed, ls) ==
    [bounded |-> c.bounded_coastlines_from_complete_coastline,
     closed |-> IF Len(c.bounded_coastline_accumulator) = 0
                THEN closed
                ELSE Insert0(closed, c.bounded_coastline_accumulator),
     lists |-> ls, intersection |-> c.intersection, raised |-> ""]

\* lines 486-487: the loops over the sides and their events rebind the local
\* variable intersection of the clipper to each event in turn, so after them
\* it holds the last event of the last side that has one (the id of the
\* event is not read from it afterwards and is left out)
LastEventBound(ls, m) ==
    LET k == CHOOSE i \in DOMAIN SideOrder :
                 /\ Len(ls[m[SideOrder[i]]]) > 0
                 /\ \A j \in DOMAIN SideOrder :
                        j > i => Len(ls[m[SideOrder[j]]]) = 0
        e == Last(ls[m[SideOrder[k]]])
    IN  [kind |-> "crossing", point |-> e.point,
         is_entering |-> e.is_entering, side |-> e.side]

\* what lines 458-503 leave: the bounded list, the closed list, the lists
\* of the map, the local variable intersection, and the exception raised,
\* "" if none
ChainEnd(c, closed, ls) ==
    LET acc == c.bounded_coastline_accumulator
        bounded == c.bounded_coastlines_from_complete_coastline
        same == [bounded |-> bounded, closed |-> closed, lists |-> ls,
                 intersection |-> c.intersection, raised |-> ""]
    IN  IF Len(acc) = 0 THEN same
        ELSE IF ~c.does_coastline_cross_boundary
        THEN IF Len(bounded) # 0
             THEN [same EXCEPT !.raised =
                      "Coastline did not cross boundary yet we have a bounded coastline"]
             ELSE [same EXCEPT !.closed = Append(closed, acc)]
        ELSE IF Last(acc) = c.complete_coastlines[c.chain_i][1]
        THEN IF Len(bounded) = 0
             THEN [same EXCEPT !.raised = "IndexError: list index out of range"]
             ELSE [same EXCEPT
                      !.bounded = [bounded EXCEPT ![1] =
                                      [id |-> bounded[1].id,
                                       coords |-> acc \o Rest(bounded[1].coords)]],
                      !.lists = RewriteIds(ls, c.intersection_map,
                                           c.current_bounded_coastline_id,
                                           bounded[1].id),
                      !.intersection = LastEventBound(ls, c.intersection_map)]
        ELSE [same EXCEPT !.bounded =
                 Append(bounded, [id |-> c.current_bounded_coastline_id,
                                  coords |-> acc])]

ClipChainEnd ==
    /\ pc = "clip"
    /\ clip.chain_i <= Len(clip.complete_coastlines)
    /\ clip.seg_i >= Len(CurrentChain)
    /\ LET r == ChainEnd(clip, closed_coastlines, lists)
       IN  IF r.raised # ""
           THEN /\ Raise(r.raised)
                /\ UNCHANGED <<clip, closed_coastlines, open_coastlines, lists,
                               next_uuid>>
           ELSE /\ closed_coastlines' = r.closed
                /\ lists' = r.lists
                /\ open_coastlines' = StoreBounded(open_coastlines, r.bounded)
                /\ IF clip.chain_i < Len(clip.complete_coastlines)
                   THEN /\ clip' = StartChain(
                                        [clip EXCEPT !.intersection = r.intersection],
                                        clip.chain_i + 1, next_uuid + 1)
                        /\ next_uuid' = next_uuid + 1
                   ELSE /\ clip' = [clip EXCEPT
                               !.chain_i = @ + 1,
                               !.intersection = r.intersection,
                               !.bounded_coastlines_from_complete_coastline = r.bounded]
                        /\ next_uuid' = next_uuid
                /\ UNCHANGED <<pc, error>>
    /\ UNCHANGED <<osm_file, cursor, coastlines, run, stack, all_coastlines,
                   first_result>>

(***************************************************************************)
(* bound_and_sort_complete_coastlines: lines 511-519                       *)
(***************************************************************************)
\* list.sort(key=point[k]) for sgn = 1, list.sort(key=point[k], reverse=True)
\* for sgn = -1; both keep the order of events with equal keys
RECURSIVE SortEvents(_, _, _)
SortEvents(s, k, sgn) ==
    IF Len(s) = 0 THEN <<>>
    ELSE LET sorted == SortEvents(SubSeq(s, 1, Len(s) - 1), k, sgn)
             x == Last(s)
             n == Cardinality({i \in DOMAIN sorted :
                                  sgn * sorted[i].point[k] <= sgn * x.point[k]})
         IN  SubSeq(sorted, 1, n) \o <<x>> \o SubSeq(sorted, n + 1, Len(sorted))

\* a return that sorts BOTTOM without reverse=True, against which the
\* clockwise order of the sides is tested
SortSides_bottom_not_reversed(ls, m) ==
    [r \in DOMAIN ls |->
        CASE r = m["TOP"]    -> SortEvents(ls[r], 1, 1)
          [] r = m["RIGHT"]  -> SortEvents(ls[r], 2, 0 - 1)
          [] r = m["BOTTOM"] -> SortEvents(ls[r], 1, 1)
          [] r = m["LEFT"]   -> SortEvents(ls[r], 2, 1)
          [] OTHER -> ls[r]]

\* lines 512-515
SortSides(ls, m) ==
    [r \in DOMAIN ls |->
        CASE r = m["TOP"]    -> SortEvents(ls[r], 1, 1)
          [] r = m["RIGHT"]  -> SortEvents(ls[r], 2, 0 - 1)
          [] r = m["BOTTOM"] -> SortEvents(ls[r], 1, 0 - 1)
          [] r = m["LEFT"]   -> SortEvents(ls[r], 2, 1)
          [] OTHER -> ls[r]]

\* the events of a map, side after side
RECURSIVE EventsFrom(_, _, _)
EventsFrom(ls, m, i) ==
    IF i > Len(SideOrder) THEN <<>>
    ELSE ls[m[SideOrder[i]]] \o EventsFrom(ls, m, i + 1)

AllEvents(ls, m) == EventsFrom(ls, m, 1)

entering_count(ls, m) ==
    Cardinality({i \in DOMAIN AllEvents(ls, m) : AllEvents(ls, m)[i].is_entering})

exiting_count(ls, m) ==
    Cardinality({i \in DOMAIN AllEvents(ls, m) : ~AllEvents(ls, m)[i].is_entering})

\* the class of the exception a message of the model stands for
ErrorType(msg) ==
    CASE msg = "KeyError: starting_coastline_id" -> "KeyError"
      [] msg = "IndexError: list index out of range" -> "IndexError"
      [] OTHER -> "ValueError"

\* the arguments the exception carries: ValueError(message)
ErrorArgs(msg) == <<msg>>

\* a validation that accepts every map, against which the balance of the
\* returned map is tested
validate_intersection_map_accepting(ls, m) == TRUE

\* TRUE when validate_intersection_map returns, FALSE when it raises
validate_intersection_map(ls, m) == entering_count(ls, m) = exiting_count(ls, m)

ClipSortAndValidate ==
    /\ pc = "clip"
    /\ clip.chain_i > Len(clip.complete_coastlines)
    /\ lists' = SortSides(lists, clip.intersection_map)
    /\ IF validate_intersection_map(lists', clip.intersection_map)
       THEN /\ pc' = "clipped"
            /\ error' = error
       ELSE Raise("Invalid intersection map, not an equal number of entering and exiting intersections")
    /\ clip' = [clip EXCEPT
                    !.returned_open = open_coastlines,
                    !.returned_events = AllEvents(lists', clip.intersection_map)]
    /\ UNCHANGED <<osm_file, cursor, coastlines, next_uuid, run,
                   closed_coastlines, open_coastlines, stack, all_coastlines,
                   first_result>>

(***************************************************************************)
(* find_intersection_map_starting_point                                    *)
(***************************************************************************)
NoStart == [found |-> FALSE, side |-> "TOP", index |-> 0]

\* (side, intersection_index) of the first entering event, index from 0
RECURSIVE StartFrom(_, _, _)
StartFrom(ls, m, i) ==
    IF i > Len(SideOrder) THEN NoStart
    ELSE LET l == ls[m[SideOrder[i]]]
             hits == {j \in DOMAIN l : l[j].is_entering}
         IN  IF hits # {}
             THEN [found |-> TRUE, side |-> SideOrder[i],
                   index |-> (CHOOSE j \in hits : \A h \in hits : j <= h) - 1]
             ELSE StartFrom(ls, m, i + 1)

\* a search that finds no entering event in any map, against which the
\* choice of the starting point is tested
find_intersection_map_starting_point_none(ls, m) == NoStart

find_intersection_map_starting_point(ls, m) == StartFrom(ls, m, 1)

(***************************************************************************)
(* join_open_coastlines                                                    *)
(*                                                                         *)
(* A Line held by the walker is either one of the list objects stored in   *)
(* open_coastlines (ref = its id) or a list of its own (ref = NoId).       *)
(***************************************************************************)
OwnLine(coords) == [ref |-> NoId, val |-> coords]

StoredLine(id) == [ref |-> id, val |-> <<>>]

Deref(oc, h) == IF h.ref # NoId THEN oc[h.ref] ELSE h.val

\* lines 589-614
NewFrame(m, sp) ==
    LET starting_coastline_id ==
            lists[m[sp.side]][sp.index + 1].bounded_coastline_id
    IN  [intersection_map |-> m,
         starting_point |-> <<sp.side, sp.index>>,
         looking_for |-> "exit",
         current_side |-> sp.side,
         current_index |-> sp.index + 1,
         starting_coastline_id |-> starting_coastline_id,
         current_open_coastline_accumulator |-> StoredLine(starting_coastline_id),
         exit_id_to_look_for |-> starting_coastline_id,
         entrace_id_to_look_for |-> NoId,
         new_closed_coastlines |-> <<>>,
         skipped_intersections |-> <<>>,
         current_skipped_intersection_map |-> DictCopy(EMPTY_INTERSECTION_MAP),
         current_skipped_intersection_map_is_used |-> FALSE,
         skipped_i |-> 1]

\* open_coastlines[starting_coastline_id] of line 597 finds its key
StartIsKnown(m, sp) ==
    lists[m[sp.side]][sp.index + 1].bounded_coastline_id \in DOMAIN open_coastlines

\* render_coastline_and_background_water, lines 129-136
JoinCall ==
    /\ pc = "clipped"
    /\ LET sp == find_intersection_map_starting_point(lists, clip.intersection_map)
       IN  IF ~sp.found
           THEN /\ all_coastlines' = closed_coastlines
                /\ pc' = "done"
                /\ UNCHANGED <<stack, error>>
           ELSE IF StartIsKnown(clip.intersection_map, sp)
           THEN /\ stack' = <<NewFrame(clip.intersection_map, sp)>>
                /\ pc' = "walk"
                /\ UNCHANGED <<all_coastlines, error>>
           ELSE /\ Raise("KeyError: starting_coastline_id")
                /\ UNCHANGED <<stack, all_coastlines>>
    /\ UNCHANGED <<osm_file, cursor, coastlines, lists, next_uuid, run, clip,
                   closed_coastlines, open_coastlines, first_result>>

(***************************************************************************)
(* join_open_coastlines: the while loop (lines 616-706), one pass per step *)
(***************************************************************************)
\* the innermost call
F == stack[Len(stack)]

SetF(f) == [stack EXCEPT ![Len(stack)] = f]

\* the condition of the while loop
InLoop(f) ==
    \/ f.current_side # f.starting_point[1]
    \/ f.current_index # f.starting_point[2]

\* intersection_map[current_side]
CurrentList(f) == lists[f.intersection_map[f.current_side]]

AtSideEnd(f) == f.current_index >= Len(CurrentList(f))

current_intersection(f) == CurrentList(f)[f.current_index + 1]

\* an insert that leaves the accumulator as it is, against which the
\* closure of the polygons is tested
AccInsert0_lost(oc, h, x) == [oc |-> oc, acc |-> h]

\* list.insert(0, x) on the accumulator: on the stored list when the
\* accumulator is one, on its own list otherwise
AccInsert0(oc, h, x) ==
    IF h.ref # NoId
    THEN [oc |-> [oc EXCEPT ![h.ref] = Insert0(@, x)], acc |-> h]
    ELSE [oc |-> oc, acc |-> OwnLine(Insert0(h.val, x))]

Walking == pc = "walk" /\ Len(stack) > 0 /\ InLoop(F)

AtEvent == Walking /\ ~AtSideEnd(F)

WalkFrame == UNCHANGED <<osm_file, cursor, coastlines, next_uuid, run, clip,
                         closed_coastlines, all_coastlines, first_result>>

\* lines 618-627
WalkSideEnd ==
    /\ Walking
    /\ AtSideEnd(F)
    /\ LET ins == IF F.looking_for = "exit" /\ F.entrace_id_to_look_for = NoId
                  THEN AccInsert0(open_coastlines,
                                  F.current_open_coastline_accumulator,
                                  side_clockwise_corners[F.current_side])
                  ELSE [oc |-> open_coastlines,
                        acc |-> F.current_open_coastline_accumulator]
       IN  /\ open_coastlines' = ins.oc
           /\ stack' = SetF([F EXCEPT
                                !.current_open_coastline_accumulator = ins.acc,
                                !.current_index = 0,
                                !.current_side = NEXT_SIDE_MAP[F.current_side]])
    /\ UNCHANGED <<lists, pc, error>>
    /\ WalkFrame

\* a walker that takes an event of either direction whatever it is looking
\* for, against which the two direction errors are tested
WalkError_either_direction(f, oc) ==
    LET e == current_intersection(f)
    IN  IF e.bounded_coastline_id \notin DOMAIN oc
        THEN "Invalid intersection map, no coastline found for intersection"
        ELSE IF f.looking_for = "exit" /\ f.exit_id_to_look_for = NoId
        THEN "Invalid intersection map, no exit id to look for when looking for exit"
        ELSE IF /\ f.looking_for = "exit"
                /\ e.bounded_coastline_id # f.exit_id_to_look_for
                /\ f.entrace_id_to_look_for # NoId
        THEN "Invalid intersection map, while looking for exit we found an intersection that is not the exit of the original coastline when we shouldn't have"
        ELSE ""

\* a walker that raises on no event, against which the depth of the
\* recursion is tested
WalkError_silent(f, oc) == ""

\* the exception the pass over the current event raises, "" if none
WalkError(f, oc) ==
    LET e == current_intersection(f)
    IN  IF e.bounded_coastline_id \notin DOMAIN oc
        THEN "Invalid intersection map, no coastline found for intersection"
        ELSE IF f.looking_for = "exit"
        THEN IF e.is_entering
             THEN "Invalid intersection map, found entering intersection when looking for exit"
             ELSE IF f.exit_id_to_look_for = NoId
             THEN "Invalid intersection map, no exit id to look for when looking for exit"
             ELSE IF /\ e.bounded_coastline_id # f.exit_id_to_look_for
                     /\ f.entrace_id_to_look_for # NoId
             THEN "Invalid intersection map, while looking for exit we found an intersection that is not the exit of the original coastline when we shouldn't have"
             ELSE ""
        ELSE IF ~e.is_entering
             THEN "Invalid intersection map, found exiting intersection when looking for enter"
             ELSE ""

WalkRaise ==
    /\ AtEvent
    /\ WalkError(F, open_coastlines) # ""
    /\ Raise(WalkError(F, open_coastlines))
    /\ UNCHANGED <<lists, open_coastlines, stack>>
    /\ WalkFrame

\* lines 653-663: the exit of the root sub-chain closes the polygon
WalkClose ==
    /\ AtEvent
    /\ WalkError(F, open_coastlines) = ""
    /\ F.looking_for = "exit"
    /\ current_intersection(F).bounded_coastline_id = F.exit_id_to_look_for
    /\ LET id == current_intersection(F).bounded_coastline_id
           ins == AccInsert0(open_coastlines,
                             F.current_open_coastline_accumulator,
                             Last(open_coastlines[id]))
       IN  /\ open_coastlines' = ins.oc
           /\ stack' = SetF([F EXCEPT
                                !.new_closed_coastlines = Append(@, ins.acc),
                                !.exit_id_to_look_for = NoId,
                                !.current_open_coastline_accumulator = OwnLine(<<>>),
                                !.looking_for = "enter",
                                !.current_index = @ + 1])
    /\ UNCHANGED <<lists, pc, error>>
    /\ WalkFrame

\* lines 664-673: the exit of a nested sub-chain
WalkNestedExit ==
    /\ AtEvent
    /\ WalkError(F, open_coastlines) = ""
    /\ F.looking_for = "exit"
    /\ current_intersection(F).bounded_coastline_id # F.exit_id_to_look_for
    /\ LET id == current_intersection(F).bounded_coastline_id
       IN  stack' = SetF([F EXCEPT
                             !.entrace_id_to_look_for = id,
                             !.current_open_coastline_accumulator =
                                 OwnLine(open_coastlines[id]
                                         \o Deref(open_coastlines, @)),
                             !.looking_for = "enter",
                             !.current_index = @ + 1])
    /\ UNCHANGED <<lists, open_coastlines, pc, error>>
    /\ WalkFrame

\* lines 685-690: the enter of the next root sub-chain
WalkAdopt ==
    /\ AtEvent
    /\ WalkError(F, open_coastlines) = ""
    /\ F.looking_for = "enter"
    /\ F.exit_id_to_look_for = NoId
    /\ LET id == current_intersection(F).bounded_coastline_id
       IN  stack' = SetF([F EXCEPT
                             !.exit_id_to_look_for = id,
                             !.current_open_coastline_accumulator = StoredLine(id),
                             !.current_index = @ + 1,
                             !.looking_for = "exit"])
    /\ UNCHANGED <<lists, open_coastlines, pc, error>>
    /\ WalkFrame

\* a rejoin that goes back to looking for the exit with the entrance id
\* still set, against which the guards of the exit branch are tested
WalkRejoin_keeps_entrance ==
    /\ AtEvent
    /\ WalkError(F, open_coastlines) = ""
    /\ F.looking_for = "enter"
    /\ F.exit_id_to_look_for # NoId
    /\ current_intersection(F).bounded_coastline_id = F.entrace_id_to_look_for
    /\ stack' = SetF([F EXCEPT !.looking_for = "exit", !.current_index = @ + 1])
    /\ UNCHANGED <<lists, open_coastlines, pc, error>>
    /\ WalkFrame

\* lines 692-699: the enter of the nested sub-chain left in WalkNestedExit
WalkRejoin ==
    /\ AtEvent
    /\ WalkError(F, open_coastlines) = ""
    /\ F.looking_for = "enter"
    /\ F.exit_id_to_look_for # NoId
    /\ current_intersection(F).bounded_coastline_id = F.entrace_id_to_look_for
    /\ stack' = SetF([F EXCEPT
                         !.entrace_id_to_look_for = NoId,
                         !.skipped_intersections =
                             IF F.current_skipped_intersection_map_is_used
                             THEN Append(@, F.current_skipped_intersection_map)
                             ELSE @,
                         !.current_skipped_intersection_map =
                             IF F.current_skipped_intersection_map_is_used
                             THEN DictCopy(EMPTY_INTERSECTION_MAP)
                             ELSE @,
                         !.looking_for = "exit",
                         !.current_index = @ + 1])
    /\ UNCHANGED <<lists, open_coastlines, pc, error>>
    /\ WalkFrame

\* the events a side list may hold before the model stops following a walk
\* that keeps deferring (a way has at most two crossings)
SideListCap == 2 * MaxWays * MaxRuns + MaxDeferred

\* lines 700-706: any other enter is deferred
WalkDefer ==
    /\ AtEvent
    /\ WalkError(F, open_coastlines) = ""
    /\ F.looking_for = "enter"
    /\ F.exit_id_to_look_for # NoId
    /\ current_intersection(F).bounded_coastline_id # F.entrace_id_to_look_for
    /\ Len(lists[F.current_skipped_intersection_map[F.current_side]]) < SideListCap
    /\ lists' = AppendEvent(lists, F.current_skipped_intersection_map,
                            F.current_side, current_intersection(F))
    /\ stack' = SetF([F EXCEPT
                         !.current_skipped_intersection_map_is_used = TRUE,
                         !.current_index = @ + 1])
    /\ UNCHANGED <<open_coastlines, pc, error>>
    /\ WalkFrame

(***************************************************************************)
(* join_open_coastlines: the recursive passes and the return (708-722)     *)
(***************************************************************************)
LoopDone == pc = "walk" /\ Len(stack) > 0 /\ ~InLoop(F)

\* one pass of `for skipped_intersection_map in skipped_intersections`
WalkRecurse ==
    /\ LoopDone
    /\ F.skipped_i <= Len(F.skipped_intersections)
    /\ Len(stack) < MaxDepth
    /\ LET m == F.skipped_intersections[F.skipped_i]
           sp == find_intersection_map_starting_point(lists, m)
       IN  IF ~sp.found
           THEN /\ stack' = SetF([F EXCEPT !.skipped_i = @ + 1])
                /\ UNCHANGED <<pc, error>>
           ELSE IF StartIsKnown(m, sp)
           THEN /\ stack' = Append(stack, NewFrame(m, sp))
                /\ UNCHANGED <<pc, error>>
           ELSE /\ Raise("KeyError: starting_coastline_id")
                /\ UNCHANGED stack
    /\ UNCHANGED <<lists, open_coastlines>>
    /\ WalkFrame

\* the Lines a list of the walker holds
Lines(oc, hs) == [i \in DOMAIN hs |-> Deref(oc, hs[i])]

\* `return new_closed_coastlines`: to line 720 of the calling pass, or to
\* line 136 of render_coastline_and_background_water
WalkReturn ==
    /\ LoopDone
    /\ F.skipped_i > Len(F.skipped_intersections)
    /\ IF Len(stack) > 1
       THEN /\ LET caller == stack[Len(stack) - 1]
               IN  stack' = Append(SubSeq(stack, 1, Len(stack) - 2),
                                   [caller EXCEPT
                                       !.new_closed_coastlines =
                                           @ \o F.new_closed_coastlines,
                                       !.skipped_i = @ + 1])
            /\ UNCHANGED <<pc, all_coastlines>>
       ELSE /\ all_coastlines' = closed_coastlines
                               \o Lines(open_coastlines, F.new_closed_coastlines)
            /\ pc' = "done"
            /\ UNCHANGED stack
    /\ UNCHANGED <<lists, open_coastlines, error>>
    /\ UNCHANGED <<osm_file, cursor, coastlines, next_uuid, run, clip,
                   closed_coastlines, first_result>>

Next ==
    \/ \E k \in 1..Len(OsmWays(osm_file)) : add_coastline(k)
    \/ Render
    \/ RenderNoCoastlines
    \/ ClipSegment
    \/ ClipChainEnd
    \/ ClipSortAndValidate
    \/ JoinCall
    \/ WalkSideEnd
    \/ WalkRaise
    \/ WalkClose
    \/ WalkNestedExit
    \/ WalkAdopt
    \/ WalkRejoin
    \/ WalkDefer
    \/ WalkRecurse
    \/ WalkReturn

Spec == Init /\ [][Next]_vars

(***************************************************************************)
(* Properties of the clip-and-close pipeline                               *)
(***************************************************************************)
\* join_open_coastlines has returned to line 133
JoinReturned == pc = "done" /\ Len(stack) = 1

\* joined_open_coastlines of line 133
joined_open_coastlines ==
    Lines(open_coastlines, stack[1].new_closed_coastlines)

\* sub is a contiguous run of coordinates of poly
IsRunOf(sub, poly) ==
    \E i \in 1..(Len(poly) - Len(sub) + 1) :
        SubSeq(poly, i, i + Len(sub) - 1) = sub

\* the number of events of evs that carry id with is_entering = e
Carried(evs, id, e) ==
    Cardinality({i \in DOMAIN evs : /\ evs[i].bounded_coastline_id = id
                                    /\ evs[i].is_entering = e})

\* C1 (P5, sub-chain consumption): once join_open_coastlines has returned,
\* every sub-chain of the open_coastlines the clipper returned is a
\* contiguous run of coordinates of exactly one returned polygon.
C1_SubChainConsumed ==
    JoinReturned =>
        \A id \in DOMAIN clip.returned_open :
            Cardinality({i \in DOMAIN joined_open_coastlines :
                            IsRunOf(clip.returned_open[id],
                                    joined_open_coastlines[i])}) = 1

\* C2 (P4, closure): every polygon join_open_coastlines returns has its
\* first coordinate equal to its last and has at least 4 points.
C2_PolygonsClosed ==
    JoinReturned =>
        \A i \in DOMAIN joined_open_coastlines :
            /\ Len(joined_open_coastlines[i]) >= 4
            /\ joined_open_coastlines[i][1] = Last(joined_open_coastlines[i])

\* a walk has returned two polygons, one of them through a corner of R
C2_Witness ==
    /\ JoinReturned
    /\ Len(joined_open_coastlines) >= 2
    /\ \E i \in DOMAIN joined_open_coastlines :
           \E s \in Side :
               side_clockwise_corners[s] \in Range(joined_open_coastlines[i])

\* C3 (P3, no interior violation): every coordinate of every polygon of the
\* final land list lies on or inside R.
C3_PolygonsInsideMap ==
    pc = "done" =>
        \A i \in DOMAIN all_coastlines :
            \A j \in DOMAIN all_coastlines[i] :
                is_inside_map(all_coastlines[i][j])

\* C4 (P1, balance): when bound_and_sort_complete_coastlines returns, its
\* map holds as many entering as exiting events over the four sides, and
\* when it raises the imbalance error the two counts differ.
C4_BalancedOrRaised ==
    /\ pc = "clipped" =>
           entering_count(lists, clip.intersection_map)
               = exiting_count(lists, clip.intersection_map)
    /\ (/\ pc = "error"
        /\ error = "Invalid intersection map, not an equal number of entering and exiting intersections")
           => entering_count(lists, clip.intersection_map)
                  # exiting_count(lists, clip.intersection_map)

\* the clipper has returned a map with two entering and two exiting events
C4_Witness ==
    /\ pc = "clipped"
    /\ entering_count(lists, clip.intersection_map) = 2
    /\ exiting_count(lists, clip.intersection_map) = 2

\* C5 (I2): in the map the clipper returns, every id of open_coastlines is
\* carried by exactly one entering and exactly one exiting event, and every
\* event carries an id of open_coastlines.
C5_OneEnterOneExit ==
    pc = "clipped" =>
        LET evs == AllEvents(lists, clip.intersection_map)
        IN  /\ \A id \in DOMAIN open_coastlines :
                   /\ Carried(evs, id, TRUE) = 1
                   /\ Carried(evs, id, FALSE) = 1
            /\ \A i \in DOMAIN evs :
                   evs[i].bounded_coastline_id \in DOMAIN open_coastlines

\* C6: a segment that find_segment_intersection_with_boundary classifies as
\* crossing gets is_entering = true exactly when p1 is outside R and p2 is
\* inside R, boundary inclusive.  Read while the clipper's variable
\* intersection holds the classification of the segment (p1, p2), which the
\* merge at the end of a chain may replace by an event of the map.
C6_EnteringIffOutsideToInside ==
    (/\ clip.intersection.kind = "crossing"
     /\ clip.intersection
            = find_segment_intersection_with_boundary(clip.p1, clip.p2)) =>
        (clip.intersection.is_entering
            <=> (~is_inside_map(clip.p1) /\ is_inside_map(clip.p2)))

\* C7 (P7, determinism): a second run of the pipeline on the same ways and
\* the same rectangle, after the first in the same process, ends with the
\* polygon sequence of the first.
C7_SecondRunEqualsFirst ==
    (run = 2 /\ pc \in {"done", "error"}) =>
        (pc = "done" /\ all_coastlines = first_result)

\* C8: every invocation of bound_and_sort_complete_coastlines starts from
\* a map whose four per-side lists are empty.
C8_ClipperStartsFromEmptyMap ==
    (pc = "clip" /\ clip.chain_i = 1 /\ clip.seg_i = 1) =>
        \A s \in Side : lists[clip.intersection_map[s]] = <<>>

\* the perimeter the clipper returned reads, clockwise from the first
\* event: enter A, exit B, enter C, exit C, enter B, exit A
NestedPairOnPerimeter ==
    LET r == clip.returned_events
    IN  /\ Len(r) = 6
        /\ \A i \in {1, 3, 5} : r[i].is_entering
        /\ \A i \in {2, 4, 6} : ~r[i].is_entering
        /\ r[1].bounded_coastline_id = r[6].bounded_coastline_id
        /\ r[2].bounded_coastline_id = r[5].bounded_coastline_id
        /\ r[3].bounded_coastline_id = r[4].bounded_coastline_id
        /\ Cardinality({r[1].bounded_coastline_id, r[2].bounded_coastline_id,
                        r[3].bounded_coastline_id}) = 3

\* C9: with the enter and the exit of a further sub-chain C between the exit
\* of a nested sub-chain B and B's enter, the walker does not raise, and when
\* it has returned C is a closed polygon of its own.
C9_FurtherSubChainPublished ==
    (run = 1 /\ NestedPairOnPerimeter) =>
        /\ pc # "error"
        /\ JoinReturned =>
               \E i \in DOMAIN joined_open_coastlines :
                   LET C == clip.returned_open[
                                clip.returned_events[3].bounded_coastline_id]
                   IN  joined_open_coastlines[i] = <<Last(C)>> \o C

\* C10: a pass of the walker that defers an event (case 7) leaves the list
\* the cursor is walking as long as it was.
C10_DeferKeepsWalkedList ==
    [][WalkDefer => Len(CurrentList(F))' = Len(CurrentList(F))]_vars

\* C11: the recursion of join_open_coastlines on deferred maps ends and is
\* never nested deeper than the number of sub-chains of open_coastlines:
\* the nesting stays below MaxDepth, so that no call is withheld, and the
\* list a recursive pass walks never grows to SideListCap.
C11_RecursionBounded ==
    /\ pc = "walk" => Len(stack) <= Cardinality(DOMAIN open_coastlines)
    /\ Len(stack) < MaxDepth
    /\ (pc = "walk" /\ Len(stack) >= 2) => Len(CurrentList(F)) < SideListCap

\* a recursive pass is walking a deferred map
C11_Witness ==
    /\ pc = "walk"
    /\ Len(stack) = 2
    /\ InLoop(F)
    /\ stack[1].skipped_i <= Len(stack[1].skipped_intersections)

\* the clipper was given one chain that starts inside R, leaves R, comes
\* back through the same side and ends inside R
LeavesAndComesBack ==
    LET evs == clip.returned_events
    IN  /\ run = 1
        /\ Len(clip.complete_coastlines) = 1
        /\ is_inside_map(clip.complete_coastlines[1][1])
        /\ is_inside_map(Last(clip.complete_coastlines[1]))
        /\ Len(evs) = 2
        /\ evs[1].side = evs[2].side
        /\ ~evs[1].is_entering
        /\ evs[2].is_entering

\* C12: a chain that starts inside R, leaves through a side, re-enters
\* through the same side and ends inside R yields one sub-chain, and the
\* walker returns exactly one closed polygon, with no corner of R in it.
C12_LeaveAndReenterOnePolygon ==
    LeavesAndComesBack =>
        /\ Cardinality(DOMAIN clip.returned_open) = 1
        /\ JoinReturned =>
               /\ Len(joined_open_coastlines) = 1
               /\ joined_open_coastlines[1][1] = Last(joined_open_coastlines[1])
               /\ \A s \in Side :
                      side_clockwise_corners[s]
                          \notin Range(joined_open_coastlines[1])

\* the place of side s in the clockwise order TOP, RIGHT, BOTTOM, LEFT
SideIndex(s) == CHOOSE i \in 1..4 : SideOrder[i] = s

\* the corner of R at the clockwise end of the k-th side
CornerAfter(k) ==
    CASE k = 1 -> <<map_dimensions.max_lon, map_dimensions.max_lat>>
      [] k = 2 -> <<map_dimensions.max_lon, map_dimensions.min_lat>>
      [] k = 3 -> <<map_dimensions.min_lon, map_dimensions.min_lat>>
      [] k = 4 -> <<map_dimensions.min_lon, map_dimensions.max_lat>>

IsCorner(p) == \E k \in 1..4 : p = CornerAfter(k)

\* the corners at the end of n sides from the k-th on, the last one first
RECURSIVE CornersRunOff(_, _)
CornersRunOff(k, n) ==
    IF n = 0 THEN <<>>
    ELSE CornersRunOff((k % 4) + 1, n - 1) \o <<CornerAfter(k)>>

\* the sub-chain the root pass starts from
RootId == stack[1].starting_coastline_id

\* the place, in the map the clipper returned, of the event of sub-chain id
\* with is_entering = e
EventOf(id, e) ==
    CHOOSE i \in DOMAIN clip.returned_events :
        /\ clip.returned_events[i].bounded_coastline_id = id
        /\ clip.returned_events[i].is_entering = e

\* the number of sides between the side of event i and the side of event j
SidesBetween(i, j) ==
    (SideIndex(clip.returned_events[j].side)
        - SideIndex(clip.returned_events[i].side) + 4) % 4

\* the root sub-chain has one entry and one exit, the exit on a later side,
\* and the walker has returned its polygon
RootExitsOnLaterSide ==
    /\ run = 1
    /\ JoinReturned
    /\ Len(joined_open_coastlines) >= 1
    /\ RootId \in DOMAIN clip.returned_open
    /\ Carried(clip.returned_events, RootId, TRUE) = 1
    /\ Carried(clip.returned_events, RootId, FALSE) = 1
    /\ SidesBetween(EventOf(RootId, TRUE), EventOf(RootId, FALSE)) >= 1

\* C13, as stated: when the exit of the root sub-chain lies on a later side
\* than its entry, its polygon is the exit point, then the clockwise-next
\* corner of every side the cursor ran off (and no other corner), and it
\* ends with the sub-chain from its entry point to its exit point.
C13_CornersBetweenExitAndEntry ==
    RootExitsOnLaterSide =>
        LET A == clip.returned_open[RootId]
            i == EventOf(RootId, TRUE)
            j == EventOf(RootId, FALSE)
            p == joined_open_coastlines[1]
        IN  /\ Len(p) >= Len(A) + 1
            /\ p[1] = Last(A)
            /\ SubSeq(p, Len(p) - Len(A) + 1, Len(p)) = A
            /\ SelectSeq(SubSeq(p, 2, Len(p) - Len(A)), IsCorner)
                   = CornersRunOff(SideIndex(clip.returned_events[i].side),
                                   SidesBetween(i, j))

\* the side the cursor is on after running off m - 1 sides from the side of
\* the entry of the root sub-chain
RunOffSide(m) ==
    ((SideIndex(clip.returned_events[EventOf(RootId, TRUE)].side) + m - 2) % 4) + 1

\* the number of events the cursor has passed, after the entry of the root
\* sub-chain, when it runs off the m-th side
PassedBy(m) ==
    LET evs == clip.returned_events
        i == EventOf(RootId, TRUE)
    IN  Cardinality({x \in DOMAIN evs :
                        \/ x > i /\ evs[x].side = evs[i].side
                        \/ \E t \in 2..m : evs[x].side = SideOrder[RunOffSide(t)]})

\* the corners of the sides from the m-th to the n-th run off that the
\* cursor ran off with no nested sub-chain open, i.e. after as many nested
\* exits as nested entries, the last one first
RECURSIVE CornersKept(_, _)
CornersKept(m, n) ==
    IF m > n THEN <<>>
    ELSE CornersKept(m + 1, n)
             \o (IF PassedBy(m) % 2 = 0
                 THEN <<CornerAfter(RunOffSide(m))>> ELSE <<>>)

\* C13, amended: when the exit of the root sub-chain lies on a later side
\* than its entry, its polygon is the exit point, then, among what the walk
\* has put in front, the clockwise-next corner of every side the cursor ran
\* off while looking for that exit with no nested sub-chain open (and no
\* other corner), and it ends with the sub-chain from its entry point to
\* its exit point.  A side run off between the exit and the entry of a
\* nested sub-chain gives no corner.
C13_CornersWhereNoNestedOpen ==
    RootExitsOnLaterSide =>
        LET A == clip.returned_open[RootId]
            i == EventOf(RootId, TRUE)
            j == EventOf(RootId, FALSE)
            p == joined_open_coastlines[1]
        IN  /\ Len(p) >= Len(A) + 1
            /\ p[1] = Last(A)
            /\ SubSeq(p, Len(p) - Len(A) + 1, Len(p)) = A
            /\ SelectSeq(SubSeq(p, 2, Len(p) - Len(A)), IsCorner)
                   = CornersKept(1, SidesBetween(i, j))

\* a root sub-chain that enters through TOP and leaves through BOTTOM has
\* been published, with a nested sub-chain that leaves through TOP and
\* comes back through RIGHT: the polygon has the corner of RIGHT and not
\* the corner of TOP
C13_Witness ==
    /\ RootExitsOnLaterSide
    /\ clip.returned_events[EventOf(RootId, TRUE)].side = "TOP"
    /\ clip.returned_events[EventOf(RootId, FALSE)].side = "BOTTOM"
    /\ PassedBy(1) = 1
    /\ PassedBy(2) = 2
    /\ CornerAfter(2) \in Range(joined_open_coastlines[1])
    /\ CornerAfter(1) \notin Range(joined_open_coastlines[1])

\* a point of R on one of its four sides
OnPerimeter(p) ==
    /\ is_inside_map(p)
    /\ \/ p[1] \in {map_dimensions.min_lon, map_dimensions.max_lon}
       \/ p[2] \in {map_dimensions.min_lat, map_dimensions.max_lat}

\* bound_and_sort_complete_coastlines has raised
ClipperRaised ==
    /\ pc = "error"
    /\ Len(stack) = 0
    /\ error # "KeyError: starting_coastline_id"

\* the clipper is done with its only chain, a closed ring whose first
\* vertex is inside R and which has a vertex outside R
RingFromInside ==
    /\ run = 1
    /\ pc \notin {"read", "clip"}
    /\ Len(clip.complete_coastlines) = 1
    /\ LET ring == clip.complete_coastlines[1]
       IN  /\ Len(ring) >= 3
           /\ ring[1] = Last(ring)
           /\ is_inside_map(ring[1])
           /\ \E k \in DOMAIN ring : ~is_inside_map(ring[k])

\* c is a point, the vertices of ring after its last vertex outside R, the
\* vertices of ring before its first vertex outside R without the first,
\* and a point
IsTailThenHead(c, ring) ==
    LET n == Len(ring)
        out == {i \in DOMAIN ring : ~is_inside_map(ring[i])}
        k == (CHOOSE i \in out : \A o \in out : i <= o) - 1
        j == CHOOSE i \in out : \A o \in out : i >= o
    IN  /\ Len(c) = (n - j) + (k - 1) + 2
        /\ SubSeq(c, 2, n - j + 1) = SubSeq(ring, j + 1, n)
        /\ SubSeq(c, n - j + 2, Len(c) - 1) = SubSeq(ring, 2, k)

\* C14: for a closed ring whose first vertex is inside R and which leaves
\* and re-enters R, the clipper returns one sub-chain for the tail and the
\* head together (tail, then head without the join point), its entering
\* and its exiting event carry its id, and every event carries the id of
\* a sub-chain, each sub-chain having one entering and one exiting event.
C14_RingMergedIntoOneSubChain ==
    RingFromInside =>
        /\ ~ClipperRaised
        /\ LET evs == clip.returned_events
               oc == clip.returned_open
               ring == clip.complete_coastlines[1]
           IN  /\ \E id \in DOMAIN oc :
                      /\ IsTailThenHead(oc[id], ring)
                      /\ Carried(evs, id, TRUE) = 1
                      /\ Carried(evs, id, FALSE) = 1
                      /\ evs[EventOf(id, TRUE)].point = oc[id][1]
                      /\ evs[EventOf(id, FALSE)].point = Last(oc[id])
               /\ \A id \in DOMAIN oc :
                      /\ Carried(evs, id, TRUE) = 1
                      /\ Carried(evs, id, FALSE) = 1
               /\ \A i \in DOMAIN evs :
                      evs[i].bounded_coastline_id \in DOMAIN oc

\* validate_intersection_map has raised on unequal counts
ImbalanceRaised ==
    /\ ClipperRaised
    /\ clip.chain_i > Len(clip.complete_coastlines)
    /\ entering_count(lists, clip.intersection_map)
           # exiting_count(lists, clip.intersection_map)

\* side s holds more events of one direction than of the other
HostsExcess(s) ==
    LET evs == lists[clip.intersection_map[s]]
    IN  Cardinality({i \in DOMAIN evs : evs[i].is_entering})
            # Cardinality({i \in DOMAIN evs : ~evs[i].is_entering})

\* C15: when the entering and exiting counts differ after clipping, the
\* error is an IncompleteCoastline that names a side hosting the excess and
\* carries the entering and the exiting count.
C15_IncompleteCoastlineDiagnostic ==
    ImbalanceRaised =>
        /\ ErrorType(error) = "IncompleteCoastline"
        /\ \E s \in Side :
               /\ HostsExcess(s)
               /\ ErrorArgs(error)
                      = <<s, entering_count(lists, clip.intersection_map),
                             exiting_count(lists, clip.intersection_map)>>

\* the chains the assembler makes of the ways read
AssembledChains == convert_coastline_ways_into_continuous_lines(coastlines)

\* every assembled chain is closed and has all its vertices inside R
AllClosedInside ==
    /\ Len(AssembledChains) >= 1
    /\ \A i \in DOMAIN AssembledChains :
           /\ AssembledChains[i][1] = Last(AssembledChains[i])
           /\ \A j \in DOMAIN AssembledChains[i] :
                  is_inside_map(AssembledChains[i][j])

\* C16 (P6): if every assembled chain is closed and inside R, the pipeline
\* does not raise, the final land list is the assembled chains in their
\* order, open_coastlines is empty and the four sides of the map are empty.
C16_ClosedInputVerbatim ==
    AllClosedInside =>
        /\ pc # "error"
        /\ pc = "done" =>
               /\ all_coastlines = AssembledChains
               /\ open_coastlines = EmptyDict
               /\ \A s \in Side : lists[clip.intersection_map[s]] = <<>>

\* the pipeline is done with two closed chains inside R
C16_Witness ==
    /\ pc = "done"
    /\ AllClosedInside
    /\ Len(AssembledChains) = 2
    /\ all_coastlines[1] # all_coastlines[2]

\* C17 (I4): every chain of closed_coastlines is a closed polyline whose
\* vertices are inside R or on its boundary.
C17_ClosedChainsAreClosed ==
    \A i \in DOMAIN closed_coastlines :
        /\ closed_coastlines[i][1] = Last(closed_coastlines[i])
        /\ \A j \in DOMAIN closed_coastlines[i] :
               is_inside_map(closed_coastlines[i][j])

\* C18: every sub-chain of the open_coastlines the clipper returns starts
\* and ends on the perimeter of R and has its other coordinates inside R.
C18_SubChainEndsOnPerimeter ==
    pc = "clipped" =>
        \A id \in DOMAIN open_coastlines :
            /\ OnPerimeter(open_coastlines[id][1])
            /\ OnPerimeter(Last(open_coastlines[id]))
            /\ \A j \in DOMAIN open_coastlines[id] :
                   is_inside_map(open_coastlines[id][j])

\* the clipper has just been given the chains of the assembler
ChainsAssembled == pc = "clip" /\ clip.chain_i = 1 /\ clip.seg_i = 1

\* the orders in which the ways of T can be put
Arrangements(T) ==
    {seq \in [1..Cardinality(T) -> T] :
        \A i, j \in DOMAIN seq : i # j => seq[i] # seq[j]}

\* each way of seq starts at the node id the way before it ends at
HeadToTail(seq) ==
    \A i \in 1..(Len(seq) - 1) :
        Last(coastlines[seq[i]].refs) = coastlines[seq[i + 1]].refs[1]

\* the coordinates of the ways of seq, each shared coordinate once
RECURSIVE Glue(_)
Glue(seq) ==
    IF Len(seq) = 1 THEN coastlines[seq[1]].coords
    ELSE Glue(SubSeq(seq, 1, Len(seq) - 1))
             \o Rest(coastlines[Last(seq)].coords)

\* chain is the ways of T joined head-to-tail in some order
IsJoinOf(chain, T) ==
    /\ T # {}
    /\ \E seq \in Arrangements(T) : HeadToTail(seq) /\ chain = Glue(seq)

\* C19: every chain of the assembler is a sequence of ways in which each
\* way starts at the node id the way before it ends at, the coordinate of
\* each join appearing once.
C19_WaysJoinedHeadToTail ==
    ChainsAssembled =>
        \A c \in DOMAIN clip.complete_coastlines :
            \E T \in SUBSET DOMAIN coastlines :
                IsJoinOf(clip.complete_coastlines[c], T)

\* three ways have been joined into one chain, one of them in front of the
\* longest
C19_Witness ==
    /\ ChainsAssembled
    /\ Len(coastlines) = 3
    /\ Len(clip.complete_coastlines) = 1
    /\ clip.complete_coastlines[1][1]
           # coastlines[LongestSection(Sections(coastlines))].coords[1]

\* the ways that owner gives to chain c
WaysOf(owner, c) == {w \in DOMAIN owner : owner[w] = c}

\* an order in which the ways of chain c make the chain
OrderOf(owner, c) ==
    CHOOSE seq \in Arrangements(WaysOf(owner, c)) :
        HeadToTail(seq) /\ clip.complete_coastlines[c] = Glue(seq)

\* C20: the chains of the assembler partition the ways: each way is part of
\* exactly one chain, each chain is its ways joined head-to-tail, and no
\* chain ends at the node id another chain starts at.
C20_ChainsPartitionWays ==
    ChainsAssembled =>
        \E owner \in [DOMAIN coastlines -> DOMAIN clip.complete_coastlines] :
            /\ \A c \in DOMAIN clip.complete_coastlines :
                   IsJoinOf(clip.complete_coastlines[c], WaysOf(owner, c))
            /\ \A c, d \in DOMAIN clip.complete_coastlines :
                   c # d =>
                       Last(coastlines[Last(OrderOf(owner, c))].refs)
                           # coastlines[OrderOf(owner, d)[1]].refs[1]

\* three ways have made two chains, one of them of two ways
C20_Witness ==
    /\ ChainsAssembled
    /\ Len(coastlines) = 3
    /\ Len(clip.complete_coastlines) = 2
    /\ \E c \in 1..2 :
           \E T \in SUBSET DOMAIN coastlines :
               Cardinality(T) = 2 /\ IsJoinOf(clip.complete_coastlines[c], T)

\* l is in non-decreasing order of sgn times the k-th coordinate
InOrder(l, k, sgn) ==
    \A i \in 1..(Len(l) - 1) :
        sgn * l[i].point[k] <= sgn * l[i + 1].point[k]

\* C21 (P2, clockwise ordering): in the map the clipper returns, the events
\* of TOP are in non-decreasing lon, those of RIGHT in non-increasing lat,
\* those of BOTTOM in non-increasing lon, those of LEFT in non-decreasing lat.
C21_SidesClockwise ==
    pc = "clipped" =>
        /\ InOrder(lists[clip.intersection_map["TOP"]], 1, 1)
        /\ InOrder(lists[clip.intersection_map["RIGHT"]], 2, 0 - 1)
        /\ InOrder(lists[clip.intersection_map["BOTTOM"]], 1, 0 - 1)
        /\ InOrder(lists[clip.intersection_map["LEFT"]], 2, 1)

\* the sort has moved an event of l in front of one appended before it:
\* in front of the entry of its own sub-chain, or of an event of a sub-chain
\* made earlier
Reordered(l, k) ==
    \E i, j \in DOMAIN l :
        /\ i < j
        /\ l[i].point[k] # l[j].point[k]
        /\ \/ l[i].bounded_coastline_id > l[j].bounded_coastline_id
           \/ /\ l[i].bounded_coastline_id = l[j].bounded_coastline_id
              /\ ~l[i].is_entering
              /\ l[j].is_entering

\* the clipper has returned a map in which the sort has reordered the
\* events of each of the four sides: TOP (by lon), RIGHT (by lat, reversed),
\* BOTTOM (by lon, reversed) and LEFT (by lat)
C21_Witness ==
    /\ pc = "clipped"
    /\ run = 1
    /\ Reordered(lists[clip.intersection_map["TOP"]], 1)
    /\ Reordered(lists[clip.intersection_map["RIGHT"]], 2)
    /\ Reordered(lists[clip.intersection_map["BOTTOM"]], 1)
    /\ Reordered(lists[clip.intersection_map["LEFT"]], 2)

\* ways a and b meet at a node id, but the way's coordinate at the join is
\* not the coordinate of the chain tip, or a way has fewer coordinates than
\* node ids
AssumptionFails(a, b) ==
    /\ Last(coastlines[a].refs) = coastlines[b].refs[1]
    /\ \/ Last(coastlines[a].coords) # coastlines[b].coords[1]
       \/ Len(coastlines[a].coords) # Len(coastlines[a].refs)
       \/ Len(coastlines[b].coords) # Len(coastlines[b].refs)

\* the assembler has joined two ways on a node id for which the
\* shared-endpoint assumption fails
JoinedOnFailedAssumption ==
    /\ run >= 1
    /\ \E T \in SUBSET DOMAIN coastlines :
           \E seq \in Arrangements(T) :
               /\ T # {}
               /\ HeadToTail(seq)
               /\ \E c \in DOMAIN clip.complete_coastlines :
                      clip.complete_coastlines[c] = Glue(seq)
               /\ \E i \in 1..(Len(seq) - 1) : AssumptionFails(seq[i], seq[i + 1])

\* C22: when the assembler joins a way to a chain on a matching node id and
\* the shared-endpoint assumption fails, the caller gets an
\* AssemblerInconsistency error; the chain is not made with the way's join
\* coordinate dropped.
C22_AssemblerInconsistencySurfaced ==
    JoinedOnFailedAssumption =>
        /\ pc = "error"
        /\ ErrorType(error) = "AssemblerInconsistency"

\* the map the clipper returned holds an entering event
HasEntering == \E i \in DOMAIN clip.returned_events : clip.returned_events[i].is_entering

\* the place, in the map the clipper returned read side after side, of its
\* first entering event
FirstEntering ==
    CHOOSE i \in DOMAIN clip.returned_events :
        /\ clip.returned_events[i].is_entering
        /\ \A j \in 1..(i - 1) : ~clip.returned_events[j].is_entering

\* the number of events the map holds on the sides before the k-th
RECURSIVE EventsBefore(_)
EventsBefore(k) ==
    IF k = 1 THEN 0
    ELSE EventsBefore(k - 1) + Len(lists[clip.intersection_map[SideOrder[k - 1]]])

\* (side, index) is the place of the first entering event
IsFirstEntering(side, index) ==
    EventsBefore(SideIndex(side)) + index + 1 = FirstEntering

\* C23: find_intersection_map_starting_point returns the side and index of
\* the first entering event, the sides taken in the order TOP, RIGHT,
\* BOTTOM, LEFT and the events in list order, and returns None exactly when
\* the map has no entering event; then the walker is not run and the final
\* land list is the closed chains of the clipper in their order.
C23_StartIsFirstEntering ==
    /\ pc = "clipped" =>
           LET sp == find_intersection_map_starting_point(lists,
                                                          clip.intersection_map)
           IN  /\ sp.found <=> HasEntering
               /\ sp.found => IsFirstEntering(sp.side, sp.index)
    /\ pc = "walk" =>
           /\ HasEntering
           /\ IsFirstEntering(stack[1].starting_point[1],
                              stack[1].starting_point[2])
    /\ (pc = "done" /\ Len(coastlines) > 0 /\ ~HasEntering) =>
           /\ stack = <<>>
           /\ all_coastlines = closed_coastlines

\* the walker has been started at the second event of TOP, the first one
\* being an exit
C23_Witness ==
    /\ pc = "walk"
    /\ run = 1
    /\ stack[1].starting_point = <<"TOP", 1>>
    /\ ~clip.returned_events[1].is_entering

\* C24: a pass of the walker that defers an event (case 7) leaves the event
\* sequence of every side of the map being walked, the accumulator,
\* exit_id_to_look_for and entrance_id_to_look_for as they were, and moves
\* the cursor one event on.
C24_DeferChangesOnlyDeferredMap ==
    [][WalkDefer =>
          /\ \A s \in Side :
                 lists'[F.intersection_map[s]] = lists[F.intersection_map[s]]
          /\ F'.intersection_map = F.intersection_map
          /\ F'.current_open_coastline_accumulator
                 = F.current_open_coastline_accumulator
          /\ open_coastlines' = open_coastlines
          /\ F'.exit_id_to_look_for = F.exit_id_to_look_for
          /\ F'.entrace_id_to_look_for = F.entrace_id_to_look_for
          /\ F'.looking_for = F.looking_for
          /\ F'.current_side = F.current_side
          /\ F'.current_index = F.current_index + 1]_vars

\* join_open_coastlines has been called in this rendering
WalkerCalled == pc \in {"walk", "done", "error"} /\ Len(stack) >= 1

\* C25: join_open_coastlines leaves open_coastlines unchanged: during and
\* after the walk every sub-chain id maps to the coordinate sequence the
\* clipper returned for it.
C25_WalkerKeepsOpenCoastlines ==
    WalkerCalled =>
        \A id \in DOMAIN clip.returned_open :
            open_coastlines[id] = clip.returned_open[id]

\* the cursor of the innermost pass is on an event of the direction the
\* pass is not looking for
WrongDirection ==
    /\ AtEvent
    /\ (F.looking_for = "exit") = current_intersection(F).is_entering

\* C26: when the walker meets an entering event while looking for an exit,
\* or an exiting event while looking for an enter, the pass ends in an error
\* and no polygon list is returned; the event is not skipped and the walk
\* does not go on.
C26_WrongDirectionRaises ==
    [][WrongDirection =>
          /\ pc' = "error"
          /\ error' \in
                 {"Invalid intersection map, no coastline found for intersection",
                  IF F.looking_for = "exit"
                  THEN "Invalid intersection map, found entering intersection when looking for exit"
                  ELSE "Invalid intersection map, found exiting intersection when looking for enter"}
          /\ stack' = stack
          /\ all_coastlines' = <<>>]_vars

\* the walker has raised on an exiting event met while looking for an enter
C26_Witness ==
    /\ pc = "error"
    /\ run = 1
    /\ error = "Invalid intersection map, found exiting intersection when looking for enter"
    /\ Len(stack) = 1
    /\ F.looking_for = "enter"
    /\ ~current_intersection(F).is_entering
    /\ all_coastlines = <<>>

\* C27: in every pass of the walker, at every iteration of its loop,
\* looking_for = exit implies that exit_id_to_look_for is set and
\* entrance_id_to_look_for is None; the walker therefore never raises "no
\* exit id to look for" nor "not the exit of the original coastline".
C27_ExitStateWellFormed ==
    /\ \A d \in DOMAIN stack :
           stack[d].looking_for = "exit" =>
               /\ stack[d].exit_id_to_look_for # NoId
               /\ stack[d].entrace_id_to_look_for = NoId
    /\ error # "Invalid intersection map, no exit id to look for when looking for exit"
    /\ error # "Invalid intersection map, while looking for exit we found an intersection that is not the exit of the original coastline when we shouldn't have"

\* the walker is looking for the exit of the root sub-chain again, after the
\* nested-exit branch and the rejoin of the nested sub-chain
C27_Witness ==
    /\ pc = "walk"
    /\ run = 1
    /\ AtEvent
    /\ F.looking_for = "exit"
    /\ F.current_open_coastline_accumulator.ref = NoId
    /\ Len(F.current_open_coastline_accumulator.val) > 0
    /\ F.exit_id_to_look_for = F.starting_coastline_id

\* C28: when the loop of the walker ends on the map the clipper returned,
\* which passed validation, no partly built polygon is discarded:
\* looking_for = enter, exit_id_to_look_for and entrance_id_to_look_for are
\* None and the accumulator is empty.
C28_LoopEndsWithNothingPending ==
    (LoopDone /\ Len(stack) = 1) =>
        /\ F.looking_for = "enter"
        /\ F.exit_id_to_look_for = NoId
        /\ F.entrace_id_to_look_for = NoId
        /\ Deref(open_coastlines, F.current_open_coastline_accumulator) = <<>>

\* the clipper is at the start of a segment of a chain
AtSegmentStart ==
    /\ pc = "clip"
    /\ clip.chain_i <= Len(clip.complete_coastlines)
    /\ clip.seg_i < Len(CurrentChain)

\* C29: whenever the accumulator of the clipper is non-empty at the start
\* of a segment (p1, p2), its last element is p1 and p1 is inside R; the
\* clipper therefore never raises "accumulator is not empty but we're
\* outside the map".
C29_AccumulatorEndsAtP1 ==
    /\ (AtSegmentStart /\ clip.bounded_coastline_accumulator # <<>>) =>
           /\ Last(clip.bounded_coastline_accumulator) = CurrentChain[clip.seg_i]
           /\ is_inside_map(CurrentChain[clip.seg_i])
    /\ error # "Coastline accumulator is not empty but we're outside the map"

\* the clipper is past the last segment of a chain and lines 459-471 send
\* it to the merge branch
AtMergeBranch ==
    /\ pc = "clip"
    /\ clip.chain_i <= Len(clip.complete_coastlines)
    /\ clip.seg_i >= Len(CurrentChain)
    /\ clip.bounded_coastline_accumulator # <<>>
    /\ clip.does_coastline_cross_boundary
    /\ Last(clip.bounded_coastline_accumulator) = CurrentChain[1]

\* C30: the merge branch of the clipper is only taken when a sub-chain has
\* already been emitted for the chain, so that reading the first emitted
\* sub-chain never fails on an empty list.
C30_MergeHasFirstSubChain ==
    /\ AtMergeBranch =>
           Len(clip.bounded_coastlines_from_complete_coastline) >= 1
    /\ error # "IndexError: list index out of range"

=============================================================================
